---- MODULE Spec2Model ----
(***************************************************************************)
(* The detection relay of backend/app.py: the /predict, /save-history,     *)
(* /save-detection and /health handlers, the background storage task, and  *)
(* the storage bucket and table they write.                                *)
(*                                                                         *)
(* Numbers are fixed point, in hundredths: 0.91 is 91, 87.0 is 8700.       *)
(***************************************************************************)
EXTENDS Integers, Sequences, FiniteSets, TLC

VARIABLES reqs, bucket, rows, tasks

vars == <<reqs, bucket, rows, tasks>>

\* ---------------------------------------------------------------- bounds
NumRequests == 2
MaxTime == 1

Reqs == 1..NumRequests

\* ---------------------------------------------------------------- values
\* A Python / JSON value: a key that is absent, None, a number or a string.
Absent == [t |-> "absent", n |-> 0, s |-> ""]
None == [t |-> "null", n |-> 0, s |-> ""]
Num(k) == [t |-> "num", n |-> k, s |-> ""]
Str(x) == [t |-> "str", n |-> 0, s |-> x]

\* dict.get(key, default) / request.form.get(key): the default for an absent key.
Get(v, default) == IF v.t = "absent" THEN default ELSE v

\* Python truth value, as all([...]) tests it.
Truthy(v) ==
    CASE v.t = "num" -> v.n # 0
      [] v.t = "str" -> v.s # ""
      [] OTHER -> FALSE

\* float(): a number is kept, a string is parsed, None raises TypeError and
\* a string that is no number raises ValueError.
ParseStr(x) ==
    CASE x = "0" -> [ok |-> TRUE, v |-> 0]
      [] x = "0.91" -> [ok |-> TRUE, v |-> 91]
      [] x = "0.87" -> [ok |-> TRUE, v |-> 87]
      [] OTHER -> [ok |-> FALSE, v |-> 0]

float(v) ==
    CASE v.t = "num" -> [ok |-> TRUE, v |-> v.n]
      [] v.t = "str" -> ParseStr(v.s)
      [] OTHER -> [ok |-> FALSE, v |-> 0]

\* The literal 100 of `float(...) * 100`.
Hundred == 100

\* ------------------------------------------------------------- responses
NoBody == [keys |-> {}, status |-> "", animal |-> None, confidence |-> 0]
\* jsonify({"error": ...})
ErrorBody == [keys |-> {"error"}, status |-> "", animal |-> None, confidence |-> 0]
\* jsonify({"status": s}) and jsonify({"status": s, "message": ...})
StatusBody(s) == [keys |-> {"status"}, status |-> s, animal |-> None, confidence |-> 0]
StatusMessageBody(s) ==
    [keys |-> {"status", "message"}, status |-> s, animal |-> None, confidence |-> 0]
\* jsonify({"status": "success", "animal": a, "confidence": c})
ResultBody(a, c) ==
    [keys |-> {"status", "animal", "confidence"}, status |-> "success",
     animal |-> a, confidence |-> c]
\* What the framework answers to an exception no handler catches: an HTML
\* page, no JSON object at all.
UnhandledBody == [keys |-> {"<html>"}, status |-> "", animal |-> None, confidence |-> 0]

\* -------------------------------------------------------------- requests
NoModel == [outcome |-> "none", label |-> Absent, confidence |-> Absent]

IdleReq ==
    [kind |-> "none", pc |-> "idle", hasImage |-> FALSE, data |-> "none",
     image_url |-> None, animal |-> None, confidence |-> None, user_id |-> None,
     filename |-> "", public_url |-> "", model |-> NoModel,
     code |-> 0, body |-> NoBody, uploads |-> 0, inserts |-> 0]

\* Requests are numbered in the order they arrive.
Arrives(r) ==
    /\ reqs[r].pc = "idle"
    /\ \A q \in Reqs : q < r => reqs[q].pc # "idle"

\* return jsonify(body), code
Respond(req, code, body) == [req EXCEPT !.pc = "done", !.code = code, !.body = body]

\* ---------------------------------------------------------------- storage
\* supabase.storage.from_(bucket).upload(filename, ...): the object is in
\* the bucket afterwards.
Upload(b, filename) == bucket \cup {<<b, filename>>}

\* supabase.storage.from_(bucket).get_public_url(filename)
get_public_url(b, filename) == "https://sb/public/" \o b \o "/" \o filename

\* supabase.table("labeled_images").insert(record).execute()
Insert(record) == Append(rows, record)

Record(url, animal, confidence, user_id) ==
    [labeled_image_url |-> url, animal_detected |-> animal,
     confidence_score |-> confidence, user_id |-> user_id]

\* int(time.time()): the second in which the handler runs.
Times == 0..MaxTime

\* f"{int(time.time())}_{file.filename}"
Filename(now, name) == ToString(now) \o "_" \o name

\* ------------------------------------------------------------------ inputs
FileNames == {"fox.jpg"}
ImageUrls == {Absent, Str("http://x/y.jpg")}
Animals == {Absent, Str("dog")}
UserIds == {Absent, Str("u1")}
\* JSON: a number (0 included), a numeric string, a string that is no number.
JsonConfidences == {Absent, Num(0), Num(91), Str("0.91"), Str("abc")}
\* A form field is a string when present.
FormConfidences == {Absent, Str(""), Str("0.91"), Str("abc")}
\* request.json: null, a JSON object, or another JSON value (an array).
JsonBodies == {"null", "object", "array"}
Outcomes == {"ok", "fail"}

Init ==
    /\ reqs = [r \in Reqs |-> IdleReq]
    /\ bucket = {}
    /\ rows = <<>>
    /\ tasks = <<>>

\* --------------------------------------------------------- database call
\* A handler that answers 200 whether or not execute() raised.
InsertReplyAlwaysOk(req, db, okBody) ==
    Respond([req EXCEPT !.inserts = IF db = "ok" THEN @ + 1 ELSE @], 200, okBody)

\* try: ...insert(record).execute(); return jsonify(ok), 200
\* except Exception as e: return jsonify({"error": str(e)}), 500
InsertReply(req, db, okBody) ==
    IF db = "ok"
    THEN Respond([req EXCEPT !.inserts = @ + 1], 200, okBody)
    ELSE Respond(req, 500, ErrorBody)

InsertRows(db, record) == IF db = "ok" THEN Insert(record) ELSE rows

\* ------------------------------------------------------- /save-history
\* all([image_url, animal, confidence, user_id])
SaveHistoryValid(image_url, animal, confidence, user_id) ==
    Truthy(image_url) /\ Truthy(animal) /\ Truthy(confidence) /\ Truthy(user_id)

\* `if not data`: null, or a JSON object with no key
NoData(data, iu, an, cf, us) ==
    \/ data = "null"
    \/ data = "object" /\ iu = Absent /\ an = Absent /\ cf = Absent /\ us = Absent

\* The whole handler: one database call at most, so one step.
save_history(r) ==
    /\ Arrives(r)
    /\ \E data \in JsonBodies, iu \in ImageUrls, an \in Animals,
          cf \in JsonConfidences, us \in UserIds, db \in Outcomes :
        LET image_url == Get(iu, None)
            animal == Get(an, None)
            confidence == Get(cf, None)
            user_id == Get(us, None)
            req == [IdleReq EXCEPT !.kind = "save_history", !.data = data,
                       !.image_url = iu, !.animal = an,
                       !.confidence = cf, !.user_id = us]
            parsed == float(confidence)
            reaches_db == /\ data = "object"
                          /\ SaveHistoryValid(image_url, animal, confidence, user_id)
                          /\ parsed.ok
        IN
        \* a body that is no object carries no fields
        /\ data # "object" =>
              iu = Absent /\ an = Absent /\ cf = Absent /\ us = Absent
        \* the database answers only when it is called
        /\ db = "fail" => reaches_db
        /\ IF NoData(data, iu, an, cf, us)
           THEN /\ reqs' = [reqs EXCEPT ![r] = Respond(req, 400, ErrorBody)]
                /\ UNCHANGED rows
           ELSE IF data = "array"
           THEN \* data.get on a value that is no dict: AttributeError, outside the try
                /\ reqs' = [reqs EXCEPT ![r] = Respond(req, 500, UnhandledBody)]
                /\ UNCHANGED rows
           ELSE IF ~SaveHistoryValid(image_url, animal, confidence, user_id)
           THEN /\ reqs' = [reqs EXCEPT ![r] = Respond(req, 400, ErrorBody)]
                /\ UNCHANGED rows
           ELSE IF ~parsed.ok
           THEN \* float(confidence) raises inside the try
                /\ reqs' = [reqs EXCEPT ![r] = Respond(req, 500, ErrorBody)]
                /\ UNCHANGED rows
           ELSE /\ rows' = InsertRows(db, Record(image_url, animal, parsed.v, user_id))
                /\ reqs' = [reqs EXCEPT ![r] = InsertReply(req, db, StatusBody("saved"))]
    /\ UNCHANGED <<bucket, tasks>>

\* ----------------------------------------------------- /save-detection
\* A check that forgets user_id.
SaveDetectionValidNoUserId(animal, confidence, user_id) ==
    Truthy(animal) /\ Truthy(confidence)

\* all([animal, confidence, user_id])
SaveDetectionValid(animal, confidence, user_id) ==
    Truthy(animal) /\ Truthy(confidence) /\ Truthy(user_id)

\* Lines 137-154: the image and field checks, then the file name.
save_detection(r) ==
    /\ Arrives(r)
    /\ \E hasImage \in BOOLEAN, an \in Animals, cf \in FormConfidences,
          us \in UserIds, name \in FileNames, now \in Times :
        LET animal == Get(an, None)
            confidence == Get(cf, None)
            user_id == Get(us, None)
            req == [IdleReq EXCEPT !.kind = "save_detection", !.hasImage = hasImage,
                       !.animal = an, !.confidence = cf, !.user_id = us]
            valid == hasImage /\ SaveDetectionValid(animal, confidence, user_id)
        IN
        \* the clock is read only once the checks have passed
        /\ ~valid => now = 0
        /\ reqs' = [reqs EXCEPT ![r] =
              IF ~hasImage THEN Respond(req, 400, ErrorBody)
              ELSE IF ~SaveDetectionValid(animal, confidence, user_id)
              THEN Respond(req, 400, ErrorBody)
              ELSE [req EXCEPT !.pc = "upload", !.filename = Filename(now, name)]]
    /\ UNCHANGED <<bucket, rows, tasks>>

\* A handler that carries on after a failed storage call.
AfterStorageCallIgnoringFailure(req, outcome, next) == [req EXCEPT !.pc = next]

\* An exception of the upload or of the URL lookup leaves the try block.
AfterStorageCall(req, outcome, next) ==
    IF outcome = "ok" THEN [req EXCEPT !.pc = next] ELSE Respond(req, 500, ErrorBody)

\* 1. Upload image to Supabase Storage
SD_Upload(r) ==
    /\ reqs[r].kind = "save_detection" /\ reqs[r].pc = "upload"
    /\ \E outcome \in Outcomes :
        /\ bucket' = IF outcome = "ok"
                     THEN Upload("captured-images", reqs[r].filename) ELSE bucket
        /\ reqs' = [reqs EXCEPT ![r] =
              AfterStorageCall(
                  [reqs[r] EXCEPT !.uploads = IF outcome = "ok" THEN @ + 1 ELSE @],
                  outcome, "get_url")]
    /\ UNCHANGED <<rows, tasks>>

\* 2. Get Public URL
SD_GetPublicUrl(r) ==
    /\ reqs[r].kind = "save_detection" /\ reqs[r].pc = "get_url"
    /\ \E outcome \in Outcomes :
        reqs' = [reqs EXCEPT ![r] =
              AfterStorageCall(
                  [reqs[r] EXCEPT !.public_url =
                      IF outcome = "ok"
                      THEN get_public_url("captured-images", reqs[r].filename) ELSE @],
                  outcome, "insert")]
    /\ UNCHANGED <<bucket, rows, tasks>>

\* 3. Insert record into database
SD_Insert(r) ==
    /\ reqs[r].kind = "save_detection" /\ reqs[r].pc = "insert"
    /\ \E db \in Outcomes :
        LET req == reqs[r]
            parsed == float(Get(req.confidence, None))
        IN
        /\ db = "fail" => parsed.ok
        /\ IF ~parsed.ok
           THEN \* float(confidence) raises while db_data is built
                /\ reqs' = [reqs EXCEPT ![r] = Respond(req, 500, ErrorBody)]
                /\ UNCHANGED rows
           ELSE /\ rows' = InsertRows(db, Record(Str(req.public_url), Get(req.animal, None),
                                                 parsed.v, Get(req.user_id, None)))
                /\ reqs' = [reqs EXCEPT ![r] =
                       InsertReply(req, db, StatusMessageBody("success"))]
    /\ UNCHANGED <<bucket, tasks>>

\* ---------------------------------------------------------------- /predict
\* What requests.post(MODEL_URL, ..., timeout=120) can come back with: no
\* answer in time, no connection, an error status, a body that is no JSON, a
\* JSON value that is no object, or a JSON object.
Labels == {Absent, None, Str(""), Str("fox")}
Scores == {Absent, None, Num(0), Num(87), Num(150), Num(-10), Str("0.87"), Str("abc")}
ModelFailures == {"timeout", "unreachable", "http_error", "bad_body"}
ModelReplies ==
    {[outcome |-> o, label |-> Absent, confidence |-> Absent] :
        o \in ModelFailures \cup {"array"}}
    \cup {[outcome |-> "object", label |-> l, confidence |-> c] :
             l \in Labels, c \in Scores}

\* requests.post raises (timeout, connection error), raise_for_status()
\* raises, or response.json() raises.
ModelCallRaises(m) == m.outcome \in ModelFailures

\* A handler that falls back to the defaults when the model call fails.
ClassifyDefaultingOnFailure(m) ==
    IF m.outcome # "object"
    THEN [code |-> 200, body |-> ResultBody(Str("Unknown"), 0)]
    ELSE LET parsed == float(Get(m.confidence, Num(0)))
         IN IF ~parsed.ok THEN [code |-> 500, body |-> ErrorBody]
            ELSE [code |-> 200,
                  body |-> ResultBody(Get(m.label, Str("Unknown")), parsed.v * Hundred)]

\* Lines 69-94: the try block of predict, given the model's reply.
Classify(m) ==
    IF ModelCallRaises(m) THEN [code |-> 500, body |-> ErrorBody]
    ELSE IF m.outcome # "object"
    THEN \* prediction.get on a value that is no dict: AttributeError, caught
         [code |-> 500, body |-> ErrorBody]
    ELSE LET animal == Get(m.label, Str("Unknown"))
             parsed == float(Get(m.confidence, Num(0)))
         IN IF ~parsed.ok THEN [code |-> 500, body |-> ErrorBody]
            ELSE [code |-> 200, body |-> ResultBody(animal, parsed.v * Hundred)]

\* A predict that also records what it detected.
predict_recording(r) ==
    /\ Arrives(r)
    /\ \E m \in ModelReplies :
        LET req == [IdleReq EXCEPT !.kind = "predict", !.hasImage = TRUE, !.model = m]
            out == Classify(m)
        IN
        /\ reqs' = [reqs EXCEPT ![r] = Respond(req, out.code, out.body)]
        /\ rows' = IF out.code = 200
                   THEN Insert(Record(None, out.body.animal, out.body.confidence, None))
                   ELSE rows
    /\ UNCHANGED <<bucket, tasks>>

\* The whole handler: it calls the model and nothing else.
predict(r) ==
    /\ Arrives(r)
    /\ \E hasImage \in BOOLEAN, m \in ModelReplies :
        LET req == [IdleReq EXCEPT !.kind = "predict", !.hasImage = hasImage,
                       !.model = IF hasImage THEN m ELSE NoModel]
            out == Classify(m)
        IN
        \* without an image the model is not called
        /\ ~hasImage => m.outcome = "timeout"
        /\ reqs' = [reqs EXCEPT ![r] =
              IF ~hasImage THEN Respond(req, 400, ErrorBody)
              ELSE Respond(req, out.code, out.body)]
    /\ UNCHANGED <<bucket, rows, tasks>>

\* ----------------------------------------------------------------- /health
health(r) ==
    /\ Arrives(r)
    /\ reqs' = [reqs EXCEPT ![r] =
          Respond([IdleReq EXCEPT !.kind = "health"], 200, StatusBody("healthy"))]
    /\ UNCHANGED <<bucket, rows, tasks>>

\* ------------------------------------------------ background storage task
Tasks == 1..Len(tasks)

\* threading.Thread(target=background_storage, args=(...)).start()
NewTask(owner, filename, animal, confidence, user_id) ==
    [owner |-> owner, pc |-> "upload", filename |-> filename, animal |-> animal,
     confidence |-> confidence, user_id |-> user_id, public_url |-> "",
     uploaded |-> FALSE, inserted |-> FALSE, log |-> ""]

\* except Exception as e: print("Background storage error:", e)
TaskFailed(task) == [task EXCEPT !.pc = "done", !.log = "Background storage error"]

\* A task that carries on after a failed call.
TaskAfterCallIgnoringFailure(task, outcome, next) == [task EXCEPT !.pc = next]

\* An exception of any call leaves the try block; nothing is raised further.
TaskAfterCall(task, outcome, next) ==
    IF outcome = "ok" THEN [task EXCEPT !.pc = next] ELSE TaskFailed(task)

\* supabase.storage.from_("labeled-images").upload(...)
BG_Upload(t) ==
    /\ tasks[t].pc = "upload"
    /\ \E outcome \in Outcomes :
        /\ bucket' = IF outcome = "ok"
                     THEN Upload("labeled-images", tasks[t].filename) ELSE bucket
        /\ tasks' = [tasks EXCEPT ![t] =
              TaskAfterCall([tasks[t] EXCEPT !.uploaded = (outcome = "ok")],
                            outcome, "get_url")]
    /\ UNCHANGED <<reqs, rows>>

\* public_url = supabase.storage.from_(bucket).get_public_url(filename)
BG_GetPublicUrl(t) ==
    /\ tasks[t].pc = "get_url"
    /\ \E outcome \in Outcomes :
        tasks' = [tasks EXCEPT ![t] =
              TaskAfterCall(
                  [tasks[t] EXCEPT !.public_url =
                      IF outcome = "ok"
                      THEN get_public_url("labeled-images", tasks[t].filename) ELSE @],
                  outcome, "insert")]
    /\ UNCHANGED <<reqs, bucket, rows>>

\* After insert(data).execute(): print("Stored detection:", animal), or the
\* except branch.
TaskAfterInsert(task, db) ==
    IF db = "ok"
    THEN [task EXCEPT !.pc = "done", !.inserted = TRUE, !.log = "Stored detection"]
    ELSE TaskFailed(task)

\* supabase.table("labeled_images").insert(data).execute()
BG_Insert(t) ==
    /\ tasks[t].pc = "insert"
    /\ \E db \in Outcomes :
        LET task == tasks[t] IN
        /\ rows' = InsertRows(db, Record(Str(task.public_url), task.animal,
                                         task.confidence, task.user_id))
        /\ tasks' = [tasks EXCEPT ![t] = TaskAfterInsert(task, db)]
    /\ UNCHANGED <<reqs, bucket>>

\* ------------------------------------------- /predict, the combined variant
\* The older predict-and-store handler: the model call of predict, then, on
\* success, the response and a detached background_storage task.
StoreReplies ==
    {m \in ModelReplies :
        \/ m.outcome \in {"timeout", "http_error"}
        \/ m.outcome = "object" /\ m.label = Str("fox") /\ m.confidence = Num(87)
        \/ m.outcome = "object" /\ m.label = Absent /\ m.confidence = Absent}

predict_and_store(r) ==
    /\ Arrives(r)
    /\ \E hasImage \in BOOLEAN, m \in StoreReplies, us \in UserIds,
          name \in FileNames, now \in Times :
        LET req == [IdleReq EXCEPT !.kind = "predict_and_store", !.hasImage = hasImage,
                       !.user_id = us, !.model = IF hasImage THEN m ELSE NoModel]
            out == Classify(m)
        IN
        /\ ~hasImage => m.outcome = "timeout"
        /\ ~(hasImage /\ out.code = 200) => now = 0
        /\ reqs' = [reqs EXCEPT ![r] =
              IF ~hasImage THEN Respond(req, 400, ErrorBody)
              ELSE Respond(req, out.code, out.body)]
        /\ tasks' = IF hasImage /\ out.code = 200
                    THEN Append(tasks, NewTask(r, Filename(now, name), out.body.animal,
                                               out.body.confidence, Get(us, None)))
                    ELSE tasks
    /\ UNCHANGED <<bucket, rows>>

\* ---------------------------------------------------------- specifications
\* The two save routes.
Next ==
    \/ \E r \in Reqs : save_history(r)
    \/ \E r \in Reqs : save_detection(r)
    \/ \E r \in Reqs : SD_Upload(r)
    \/ \E r \in Reqs : SD_GetPublicUrl(r)
    \/ \E r \in Reqs : SD_Insert(r)

Spec == Init /\ [][Next]_vars

\* /predict and /health.
NextPredict ==
    \/ \E r \in Reqs : predict(r)
    \/ \E r \in Reqs : health(r)

SpecPredict == Init /\ [][NextPredict]_vars

\* The combined variant of /predict and its background tasks.
NextStore ==
    \/ \E r \in Reqs : predict_and_store(r)
    \/ \E t \in Tasks : BG_Upload(t)
    \/ \E t \in Tasks : BG_GetPublicUrl(t)
    \/ \E t \in Tasks : BG_Insert(t)

SpecStore == Init /\ [][NextStore]_vars

\* save-detection, the combined variant of /predict and the background tasks:
\* every path that uploads an image.
NextUpload ==
    \/ \E r \in Reqs : save_detection(r)
    \/ \E r \in Reqs : SD_Upload(r)
    \/ \E r \in Reqs : SD_GetPublicUrl(r)
    \/ \E r \in Reqs : SD_Insert(r)
    \/ \E r \in Reqs : predict_and_store(r)
    \/ \E t \in Tasks : BG_Upload(t)
    \/ \E t \in Tasks : BG_GetPublicUrl(t)
    \/ \E t \in Tasks : BG_Insert(t)

SpecUpload == Init /\ [][NextUpload]_vars

\* ------------------------------------------------------------- properties
\* A field the request does not carry, or carries empty.
Missing(v) == v.t \in {"absent", "null"} \/ (v.t = "str" /\ v.s = "")
\* A non-empty string.
Given(v) == v.t = "str" /\ v.s # ""
IsErrorEnvelope(b) == b.keys = {"error"}
Quiet == \A r \in Reqs : reqs[r].pc \in {"idle", "done"}
Saves == {r \in Reqs : reqs[r].kind \in {"save_history", "save_detection"}}
RowsHold(record) == \E i \in 1..Len(rows) : rows[i] = record

\* C1: a /save-detection request with animal, confidence or user_id absent or
\* empty is answered 400 with an error envelope, and uploads and inserts
\* nothing.
C1_SaveDetectionMissingField ==
    \A r \in Reqs :
        (/\ reqs[r].kind = "save_detection"
         /\ (Missing(reqs[r].animal) \/ Missing(reqs[r].confidence)
                \/ Missing(reqs[r].user_id)))
        => /\ reqs[r].pc = "done"
           /\ reqs[r].code = 400
           /\ IsErrorEnvelope(reqs[r].body)
           /\ reqs[r].uploads = 0
           /\ reqs[r].inserts = 0

\* An image and two of the fields are there, user_id is not, while another
\* save-detection request has uploaded its image.
C1_Witness ==
    \E r, q \in Reqs :
        /\ reqs[r].kind = "save_detection" /\ reqs[r].hasImage
        /\ Given(reqs[r].animal) /\ Given(reqs[r].confidence)
        /\ Missing(reqs[r].user_id)
        /\ reqs[r].code = 400
        /\ reqs[q].kind = "save_detection" /\ reqs[q].uploads = 1

\* C2: a /save-history request whose JSON body is absent or lacks one of
\* image_url, animal, confidence, user_id is answered 400 with an error
\* envelope, and inserts and uploads nothing.
C2_SaveHistoryMissingField ==
    \A r \in Reqs :
        (/\ reqs[r].kind = "save_history"
         /\ (\/ reqs[r].data # "object"
             \/ reqs[r].image_url.t = "absent" \/ reqs[r].animal.t = "absent"
             \/ reqs[r].confidence.t = "absent" \/ reqs[r].user_id.t = "absent"))
        => /\ reqs[r].pc = "done"
           /\ reqs[r].code = 400
           /\ IsErrorEnvelope(reqs[r].body)
           /\ reqs[r].uploads = 0
           /\ reqs[r].inserts = 0

\* C3: a /save-history request with all four fields and a numeric confidence
\* (0 included) either fails at the insert, or inserts exactly one row that
\* holds the supplied values, the confidence unscaled, uploads nothing and is
\* answered 200 {status: "saved"}.
C3_SaveHistoryInsertsOneRow ==
    \A r \in Reqs :
        (/\ reqs[r].kind = "save_history" /\ reqs[r].data = "object"
         /\ Given(reqs[r].image_url) /\ Given(reqs[r].animal)
         /\ Given(reqs[r].user_id) /\ reqs[r].confidence.t = "num")
        => \/ reqs[r].code = 500 /\ reqs[r].inserts = 0
           \/ /\ reqs[r].code = 200
              /\ reqs[r].body = StatusBody("saved")
              /\ reqs[r].inserts = 1
              /\ reqs[r].uploads = 0
              /\ RowsHold([labeled_image_url |-> reqs[r].image_url,
                           animal_detected |-> reqs[r].animal,
                           confidence_score |-> reqs[r].confidence.n,
                           user_id |-> reqs[r].user_id])

C5_ModelFailureIs500 ==
    \A r \in Reqs :
        (/\ reqs[r].kind = "predict" /\ reqs[r].hasImage
         /\ reqs[r].model.outcome \in {"timeout", "unreachable", "http_error", "bad_body"})
        => /\ reqs[r].pc = "done"
           /\ reqs[r].code = 500
           /\ IsErrorEnvelope(reqs[r].body)

\* The model timed out for one request and answered another.
C5_Witness ==
    \E r, q \in Reqs :
        /\ reqs[r].kind = "predict" /\ reqs[r].hasImage
        /\ reqs[r].model.outcome = "timeout" /\ reqs[r].code = 500
        /\ reqs[q].kind = "predict" /\ reqs[q].code = 200

\* C6: every response of /predict to a request with an image is an error
\* envelope, or a success body whose confidence lies in [0,100] and whose
\* animal is a non-empty label.
C6_PredictBodyWellFormed ==
    \A r \in Reqs :
        (reqs[r].kind = "predict" /\ reqs[r].hasImage)
        => \/ IsErrorEnvelope(reqs[r].body)
           \/ /\ reqs[r].body.keys = {"status", "animal", "confidence"}
              /\ reqs[r].body.confidence >= 0
              /\ reqs[r].body.confidence <= 100 * Hundred
              /\ Given(reqs[r].body.animal)

\* C7: a save request with every required field present and a confidence
\* that is no number is answered 400, and uploads and inserts nothing.
C7_InvalidConfidenceIs400 ==
    \A r \in Saves :
        (/\ reqs[r].kind = "save_history" => Given(reqs[r].image_url)
         /\ reqs[r].kind = "save_detection" => reqs[r].hasImage
         /\ Given(reqs[r].animal) /\ Given(reqs[r].user_id)
         /\ reqs[r].confidence = Str("abc"))
        => /\ reqs[r].uploads = 0
           /\ reqs[r].inserts = 0
           /\ reqs[r].pc = "done" => reqs[r].code = 400

\* C8: a row of an uploaded image is inserted only after the upload succeeded
\* and the public URL was obtained, in that order; after a failed upload or
\* URL lookup nothing is inserted.
C8_InsertAfterUploadAndUrl ==
    /\ \A r \in Reqs :
          reqs[r].kind = "save_detection" =>
             LET url == get_public_url("captured-images", reqs[r].filename) IN
             /\ reqs[r].pc = "get_url" => reqs[r].uploads = 1 /\ reqs[r].public_url = ""
             /\ reqs[r].pc = "insert" => reqs[r].uploads = 1 /\ reqs[r].public_url = url
             /\ reqs[r].inserts > 0 =>
                   /\ reqs[r].uploads = 1 /\ reqs[r].public_url = url
                   /\ <<"captured-images", reqs[r].filename>> \in bucket
             /\ (reqs[r].uploads = 0 \/ reqs[r].public_url = "") => reqs[r].inserts = 0
    /\ \A t \in Tasks :
          LET url == get_public_url("labeled-images", tasks[t].filename) IN
          /\ tasks[t].pc = "get_url" => tasks[t].uploaded /\ tasks[t].public_url = ""
          /\ tasks[t].pc = "insert" => tasks[t].uploaded /\ tasks[t].public_url = url
          /\ tasks[t].inserted =>
                /\ tasks[t].uploaded /\ tasks[t].public_url = url
                /\ <<"labeled-images", tasks[t].filename>> \in bucket
          /\ (~tasks[t].uploaded \/ tasks[t].public_url = "") => ~tasks[t].inserted
    /\ \A i \in 1..Len(rows) :
          \E f \in bucket : rows[i].labeled_image_url = Str(get_public_url(f[1], f[2]))
    /\ Len(rows) = Cardinality({r \in Reqs : reqs[r].inserts > 0})
                      + Cardinality({t \in Tasks : tasks[t].inserted})

\* A save-detection request and a background task have both inserted their
\* rows.
C8_Witness ==
    /\ \E r \in Reqs : reqs[r].kind = "save_detection" /\ reqs[r].inserts = 1
    /\ \E t \in Tasks : tasks[t].inserted
    /\ Len(rows) = 2

\* C9: whatever the model answers, /predict requests upload nothing and
\* insert nothing: the bucket and the table are as they were.
C9_PredictStoresNothing ==
    /\ bucket = {}
    /\ rows = <<>>
    /\ tasks = <<>>
    /\ \A r \in Reqs : reqs[r].uploads = 0 /\ reqs[r].inserts = 0

\* Two /predict requests have been answered, one with a result and one with
\* the model's failure.
C9_Witness ==
    \E r, q \in Reqs :
        /\ reqs[r].kind = "predict" /\ reqs[r].code = 200
        /\ reqs[q].kind = "predict" /\ reqs[q].code = 500
        /\ reqs[q].model.outcome = "http_error"

\* C10: a save request is answered 200 only if it inserted exactly one row
\* (for save-detection, after uploading the image to "captured-images"), and
\* with an error only if it inserted none; once no request is in progress the
\* table holds as many rows as 200 responses were given.
C10_AcknowledgmentIsDefinitive ==
    /\ \A r \in Saves :
          reqs[r].pc = "done" =>
             /\ reqs[r].code \in {200, 400, 500}
             /\ reqs[r].code = 200 =>
                   /\ reqs[r].inserts = 1
                   /\ reqs[r].kind = "save_detection" =>
                         /\ reqs[r].uploads = 1
                         /\ <<"captured-images", reqs[r].filename>> \in bucket
             /\ reqs[r].code # 200 => reqs[r].inserts = 0
    /\ Quiet => Len(rows) = Cardinality({r \in Saves : reqs[r].code = 200})

\* One save of each kind was acknowledged with 200.
C10_Witness ==
    /\ \E r \in Saves : reqs[r].kind = "save_history" /\ reqs[r].code = 200
    /\ \E r \in Saves : reqs[r].kind = "save_detection" /\ reqs[r].code = 200
    /\ Len(rows) = 2
====
